---- MODULE Spec2Model ----
(***************************************************************************)
(* Model of scrtt.plotting.sankey: the Sankey class (flow aggregation over *)
(* an optimal-transport model, the flow-table cache, rendering's zero-row  *)
(* filter, and the consistency / entropy metrics).                         *)
(*                                                                         *)
(* Floating point values are modelled as exact fractions <<n, d>> in       *)
(* lowest terms; <<0, 0>> is NaN (the result of 0/0).  Tables are          *)
(* sequences of rows, in the row order pandas produces.                    *)
(***************************************************************************)
EXTENDS Integers, Sequences, FiniteSets, TLC

VARIABLES
    subsets,         \* self.subsets: observation -> membership weights per group
    cache_flow_dfs,  \* self.cache_flow_dfs
    flow_dfs,        \* self.flow_dfs: (t0, t1) -> flow table (<<>> is also None)
    last,            \* the last call on the instance: arguments, outcome, results
    first,           \* (t0, t1) -> the first table calculate_flows returned for it
    ops              \* number of calls made so far

vars == <<subsets, cache_flow_dfs, flow_dfs, last, first, ops>>

\* ------------------------------------------------------------------ bounds
MaxOps == 3

\* --------------------------------------------------------- float arithmetic
NaN == <<0, 0>>
Zero == <<0, 1>>
One == <<1, 1>>

IsNaN(x) == x[2] = 0

RECURSIVE Gcd(_, _)
Gcd(a, b) == IF b = 0 THEN a ELSE Gcd(b, a % b)

Rat(n, d) ==
    IF d = 0 THEN NaN ELSE <<n \div Gcd(n, d), d \div Gcd(n, d)>>

FromInt(n) == <<n, 1>>

RAdd(x, y) ==
    IF IsNaN(x) \/ IsNaN(y) THEN NaN
    ELSE Rat(x[1] * y[2] + y[1] * x[2], x[2] * y[2])

RMul(x, y) ==
    IF IsNaN(x) \/ IsNaN(y) THEN NaN
    ELSE Rat(x[1] * y[1], x[2] * y[2])

\* x / y of non-negative floats; 0/0 and anything with NaN is NaN.  A positive
\* value is never divided by zero here: every divisor is a total that includes
\* the dividend.
RDiv(x, y) ==
    IF IsNaN(x) \/ IsNaN(y) \/ y[1] = 0 THEN NaN
    ELSE Rat(x[1] * y[2], x[2] * y[1])

\* numpy's ndarray.sum(): NaN propagates.
RECURSIVE NpSum(_)
NpSum(s) == IF s = <<>> THEN Zero ELSE RAdd(Head(s), NpSum(Tail(s)))

\* pandas' Series.sum() (also reached through np.sum(series)): skipna=True.
RECURSIVE PdSum(_)
PdSum(s) ==
    IF s = <<>> THEN Zero
    ELSE IF IsNaN(Head(s)) THEN PdSum(Tail(s))
    ELSE RAdd(Head(s), PdSum(Tail(s)))

\* ------------------------------------------------------------------ matrices
\* A matrix is a sequence of rows, each a sequence over the columns.
\* AsSeq gives a function over 1..n as an evaluated sequence of its values.
AsSeq(f) == f \o <<>>

Flatten(m) ==
    LET RECURSIVE F(_)
        F(k) == IF k > Len(m) THEN <<>> ELSE m[k] \o F(k + 1)
    IN F(1)

\* m / m.sum() over all cells
DivideBy(m, tot) ==
    AsSeq([i \in 1..Len(m) |-> AsSeq([j \in 1..Len(m[i]) |-> RDiv(m[i][j], tot)])])

NormalizeTotal(m) == DivideBy(m, NpSum(Flatten(m)))

\* a.T @ b, for a of shape (n, p) and b of shape (n, q): shape (p, q)
MatTMul(a, b, p, q) ==
    AsSeq([i \in 1..p |-> AsSeq([j \in 1..q |->
        NpSum(AsSeq([k \in 1..Len(a) |-> RMul(a[k][i], b[k][j])]))])])

\* ------------------------------------------------------- the transport model
\* ot_model.timepoints, ascending.
Timepoints == <<1, 2, 3>>

\* The time arguments a caller may pass; 0 is not a time point of the model.
TimeInputs == {0, 1, 2, 3}

\* The column labels of self.subsets (already strings), in column order.
Groups == <<"A", "B">>

NGroups == Len(Groups)

\* meta.index[meta[time_var] == t]: the observations of time point t, in order.
ObsAt(t) ==
    CASE t = 1 -> <<1, 2>>
      [] t = 2 -> <<3, 4>>
      [] t = 3 -> <<5>>
      [] OTHER -> <<>>

Obs == {1, 2, 3, 4, 5}

\* The group assignment tables an instance is constructed with: one-hot labels
\* (a Series through pd.get_dummies), and two membership matrices, one with no
\* membership mass at time point 1, one with none at time point 3.
SubsetChoices ==
    { [o \in Obs |-> CASE o \in {1, 3, 5} -> <<1, 0>> [] OTHER -> <<0, 1>>],
      [o \in Obs |-> CASE o \in {1, 2} -> <<0, 0>>
                       [] o = 3 -> <<1, 1>>
                       [] o = 4 -> <<0, 2>>
                       [] OTHER -> <<1, 0>>],
      [o \in Obs |-> CASE o \in {1, 4} -> <<1, 0>>
                       [] o = 2 -> <<1, 1>>
                       [] o = 3 -> <<0, 1>>
                       [] OTHER -> <<0, 0>>] }

\* window(seq): the sliding window of width 2 over a sequence.
window(seq) ==
    AsSeq([i \in 1..(IF Len(seq) = 0 THEN 0 ELSE Len(seq) - 1) |->
              <<seq[i], seq[i + 1]>>])

\* ot_model.day_pairs: the adjacent pairs covering the time line.
day_pairs == window(Timepoints)

\* The coupling of the transport model for a day pair: rows are the
\* observations at t_a, columns the observations at t_b.
Coupling(a, b) ==
    CASE <<a, b>> = <<1, 2>> -> << <<1, 0>>, <<1, 1>> >>
      [] <<a, b>> = <<2, 3>> -> << <<1>>, <<2>> >>

IsDayPair(a, b) == \E i \in 1..Len(day_pairs) : day_pairs[i] = <<a, b>>

\* tmap / tmap.sum(norm_axis, keepdims=True)
NormalizeAxis(tmap, norm_axis) ==
    AsSeq([i \in 1..Len(tmap) |-> AsSeq([j \in 1..Len(tmap[i]) |->
        RDiv(FromInt(tmap[i][j]),
             NpSum(IF norm_axis = 1
                   THEN AsSeq([c \in 1..Len(tmap[i]) |-> FromInt(tmap[i][c])])
                   ELSE AsSeq([r \in 1..Len(tmap) |-> FromInt(tmap[r][j])])))])])

\* ot_model.push_forward(state, t_a, t_b, normalize=True, norm_axis): the state
\* at t_b, or a failure when (t_a, t_b) is no day pair or the state is not
\* indexed by the observations of t_a.
push_forward(state, a, b, norm_axis) ==
    IF ~IsDayPair(a, b) \/ Len(state) # Len(ObsAt(a))
    THEN [ok |-> FALSE, X |-> <<>>]
    ELSE [ok |-> TRUE,
          X |-> MatTMul(NormalizeAxis(Coupling(a, b), norm_axis), state,
                        Len(ObsAt(b)), NGroups)]

\* ------------------------------------------------------------ calculate_flows
\* self.subsets.loc[ix, :]
Restrict(sub, ix) ==
    AsSeq([i \in 1..Len(ix) |->
              AsSeq([g \in 1..NGroups |-> FromInt(sub[ix[i]][g])])])

\* tps[(tps >= t0) & (tps <= t1)]
TpsBetween(t0, t1) ==
    SelectSeq(Timepoints, LAMBDA t : t >= t0 /\ t <= t1)

HopPathShort(t0, t1) ==
    window(SelectSeq(Timepoints, LAMBDA t : t >= t0 /\ t < t1))

\* The hop path of calculate_flows(t0, t1).
HopPath(t0, t1) == window(TpsBetween(t0, t1))

\* The loop over the hop path: per pair one push_forward of the outflow state
\* (norm_axis=1), then one of the inflow state (norm_axis=0).  log records
\* the push_forward invocations; a failing invocation ends the loop, so the
\* inflow invocation of a pair is made only when its outflow one returned.
RECURSIVE HopLoop(_, _, _, _)
RECURSIVE HopStep(_, _, _, _)
HopStep(pairs, o, i, log) ==
    IF ~o.ok
    THEN [ok |-> FALSE, outflow |-> <<>>, inflow |-> <<>>,
          log |-> Append(log, <<Head(pairs)[1], Head(pairs)[2], 1>>)]
    ELSE IF ~i.ok
    THEN [ok |-> FALSE, outflow |-> <<>>, inflow |-> <<>>,
          log |-> log \o << <<Head(pairs)[1], Head(pairs)[2], 1>>,
                            <<Head(pairs)[1], Head(pairs)[2], 0>> >>]
    ELSE HopLoop(Tail(pairs), o.X, i.X,
                 log \o << <<Head(pairs)[1], Head(pairs)[2], 1>>,
                           <<Head(pairs)[1], Head(pairs)[2], 0>> >>)

HopLoop(pairs, outflow, inflow, log) ==
    IF pairs = <<>>
    THEN [ok |-> TRUE, outflow |-> outflow, inflow |-> inflow, log |-> log]
    ELSE HopStep(pairs,
                 push_forward(outflow, Head(pairs)[1], Head(pairs)[2], 1),
                 push_forward(inflow, Head(pairs)[1], Head(pairs)[2], 0),
                 log)

\* Sankey._format_flow: the group x group matrix in long form, one row per
\* cell, column by column (melt).
_format_flow(flow, name) ==
    AsSeq([k \in 1..(NGroups * NGroups) |->
        [source |-> Groups[((k - 1) % NGroups) + 1],
         target |-> Groups[((k - 1) \div NGroups) + 1],
         name |-> name,
         value |-> flow[((k - 1) % NGroups) + 1][((k - 1) \div NGroups) + 1]]])

\* The rows of the right table that join one row of the left table.
Joined(l, m) ==
    AsSeq([j \in 1..Len(m) |->
        [source |-> l.source, target |-> l.target,
         outflow |-> l.value, inflow |-> m[j].value]])

\* pd.merge(outflow, inflow, on=['source', 'target']): the inner join, in the
\* order of the left table.
RECURSIVE Merge(_, _)
Merge(left, right) ==
    IF left = <<>> THEN <<>>
    ELSE Joined(Head(left),
                SelectSeq(right, LAMBDA r : r.source = Head(left).source
                                            /\ r.target = Head(left).target))
         \o Merge(Tail(left), right)

\* The end of calculate_flows: the projection of the two states onto s1, the
\* normalisation, the long format and the merge.  The matrix product fails
\* when the state and s1 have different numbers of observations.
Project(hops, s1) ==
    IF ~hops.ok \/ Len(hops.outflow) # Len(s1)
    THEN [outcome |-> "ValueError", ret |-> <<>>, pushes |-> hops.log]
    ELSE [outcome |-> "ok",
          ret |-> Merge(
              _format_flow(
                  NormalizeTotal(MatTMul(hops.outflow, s1, NGroups, NGroups)),
                  "outflow"),
              _format_flow(
                  NormalizeTotal(MatTMul(hops.inflow, s1, NGroups, NGroups)),
                  "inflow")),
          pushes |-> hops.log]

\* The states of the hop loop, both started from s0.
Hops(pairs, s0) == HopLoop(pairs, s0, s0, <<>>)

\* The body of calculate_flows(t0, t1) up to the merge: the outcome, the flow
\* table and the push_forward invocations made.  Neither the cache nor any
\* other field but self.subsets is read.
FlowDf(sub, t0, t1) ==
    Project(Hops(HopPath(t0, t1), NormalizeTotal(Restrict(sub, ObsAt(t0)))),
            NormalizeTotal(Restrict(sub, ObsAt(t1))))

\* FlowDf tabulated over the instances and arguments of the model, so that it
\* is evaluated once per argument.
FlowDfTable ==
    [sub \in SubsetChoices |->
        [k \in TimeInputs \X TimeInputs |-> FlowDf(sub, k[1], k[2])] @@ <<>>] @@ <<>>

StoreFlowSwapped(cache, t0, t1, flow_df) ==
    [k \in DOMAIN cache \cup {<<t1, t0>>} |->
        IF k = <<t1, t0>> THEN flow_df ELSE cache[k]]

StoreFlowAppend(cache, t0, t1, flow_df) ==
    [k \in DOMAIN cache \cup {<<t0, t1>>} |->
        IF k # <<t0, t1>> THEN cache[k]
        ELSE IF k \in DOMAIN cache THEN cache[k] \o flow_df ELSE flow_df]

\* self.flow_dfs[(t0, t1)] = flow_df
StoreFlow(cache, t0, t1, flow_df) ==
    [k \in DOMAIN cache \cup {<<t0, t1>>} |->
        IF k = <<t0, t1>> THEN flow_df ELSE cache[k]]

\* if self.cache_flow_dfs: self.flow_dfs[(t0, t1)] = flow_df; return flow_df
\* (reached only when the computation f raised nothing).
StoreAndReturn(caching, cache, t0, t1, f) ==
    [flow_dfs |-> IF f.outcome = "ok" /\ caching
                  THEN StoreFlow(cache, t0, t1, f.ret)
                  ELSE cache,
     outcome |-> f.outcome, ret |-> f.ret, pushes |-> f.pushes]

\* Sankey.calculate_flows(t0, t1) on an instance with the given fields: the
\* cache after the call, the outcome, the returned table and the push_forward
\* invocations made.  The cache is not read.
calculate_flows(sub, caching, cache, t0, t1) ==
    StoreAndReturn(caching, cache, t0, t1, FlowDfTable[sub][<<t0, t1>>])

\* ---------------------------------------------------------------- rendering
\* ix_null = (outflow == 0) | (inflow == 0); flow_df.loc[~ix_null, :]: a new
\* table without the rows that have a zero flow (NaN == 0 is False).
FilterNull(flow_df) ==
    SelectSeq(flow_df, LAMBDA r : ~(r.outflow = Zero \/ r.inflow = Zero))

\* plot_sankey from the table on: the filter and the call of plot_flows.
Render(cache, outcome, flow_df, pushes) ==
    [flow_dfs |-> cache, outcome |-> outcome, used |-> flow_df,
     rendered |-> FilterNull(flow_df), pushes |-> pushes]

RenderCalculated(c) == Render(c.flow_dfs, c.outcome, c.ret, c.pushes)

RenderInPlace(caching, t0, t1, r) ==
    [r EXCEPT !.flow_dfs = IF caching /\ r.outcome = "ok"
                           THEN StoreFlow(r.flow_dfs, t0, t1, r.rendered)
                           ELSE r.flow_dfs]

plot_sankey_inplace(sub, caching, cache, t0, t1) ==
    RenderInPlace(caching, t0, t1,
        IF caching /\ <<t0, t1>> \in DOMAIN cache
        THEN Render(cache, "ok", cache[<<t0, t1>>], <<>>)
        ELSE RenderCalculated(calculate_flows(sub, caching, cache, t0, t1)))

plot_sankey_nocheck(sub, caching, cache, t0, t1) ==
    RenderCalculated(calculate_flows(sub, caching, cache, t0, t1))

\* Sankey.plot_sankey(t0, t1): the cache after the call, the outcome, the
\* table it used, the table handed to plot_flows and the push_forward
\* invocations made.
plot_sankey(sub, caching, cache, t0, t1) ==
    IF caching /\ <<t0, t1>> \in DOMAIN cache
    THEN Render(cache, "ok", cache[<<t0, t1>>], <<>>)
    ELSE RenderCalculated(calculate_flows(sub, caching, cache, t0, t1))

\* The timepoints argument of plot_all_transitions: <<>> stands for None.
TimepointArgs == {<<>>, <<1, 2>>}

\* The loop of plot_all_transitions over ot_model.day_pairs: a day pair whose
\* time point is missing from the timepoints argument raises KeyError, and an
\* error of plot_sankey ends the loop.
RECURSIVE PlotLoop(_, _, _, _, _, _)
RECURSIVE PlotStep(_, _, _, _, _, _)
PlotStep(pairs, tps, sub, caching, log, p) ==
    IF p.outcome # "ok"
    THEN [flow_dfs |-> p.flow_dfs, outcome |-> p.outcome, pushes |-> log \o p.pushes]
    ELSE PlotLoop(Tail(pairs), tps, sub, caching, p.flow_dfs, log \o p.pushes)

PlotLoop(pairs, tps, sub, caching, cache, log) ==
    IF pairs = <<>>
    THEN [flow_dfs |-> cache, outcome |-> "ok", pushes |-> log]
    ELSE IF ~(\E i \in 1..Len(tps) : tps[i] = Head(pairs)[1])
            \/ ~(\E i \in 1..Len(tps) : tps[i] = Head(pairs)[2])
    THEN [flow_dfs |-> cache, outcome |-> "KeyError", pushes |-> log]
    ELSE PlotStep(pairs, tps, sub, caching, log,
                  plot_sankey(sub, caching, cache, Head(pairs)[1], Head(pairs)[2]))

\* Sankey.plot_all_transitions(timepoints=...)
plot_all_transitions(sub, caching, cache, timepoints) ==
    PlotLoop(day_pairs, IF timepoints = <<>> THEN Timepoints ELSE timepoints,
             sub, caching, cache, <<>>)

\* ------------------------------------------------------------------ metrics
\* An entropy value -sum_i c_i * ln(p_i) is kept symbolically as the set of
\* its terms <<p_i, c_i>> with 0 < p_i < 1 and c_i > 0, one term per p_i; the
\* empty set is the entropy 0.  nan marks a NaN.
EntNaN == [nan |-> TRUE, terms |-> {}]

EntZero == [nan |-> FALSE, terms |-> {}]

Range(s) == {s[i] : i \in 1..Len(s)}

Count(v, s) == Cardinality({i \in 1..Len(s) : s[i] = v})

\* The labels of a column of a table, as groupby orders them.
Labels(flow_df, group_var) ==
    SelectSeq(Groups, LAMBDA g : \E i \in 1..Len(flow_df) : flow_df[i][group_var] = g)

Column(rows, flow_var) == AsSeq([i \in 1..Len(rows) |-> rows[i][flow_var]])

\* flow_df.groupby(group_var)[flow_var]: the values of one group, in row order.
Chunk(flow_df, group_var, g, flow_var) ==
    Column(SelectSeq(flow_df, LAMBDA r : r[group_var] = g), flow_var)

\* x / total, entry by entry
Shares(x, total) == AsSeq([i \in 1..Len(x) |-> RDiv(x[i], total)])

\* -sum(p * log(p)) over the entries of p that give a number other than 0
PLogP(p) ==
    [nan |-> FALSE,
     terms |-> {<<v, RMul(v, FromInt(Count(v, p)))>> :
                    v \in Range(p) \ {Zero, One, NaN}}]

\* -sum(p * log(p)) of an ndarray: NaN as soon as one term is NaN
PLogPStrict(p) ==
    IF \E i \in 1..Len(p) : p[i] = Zero \/ IsNaN(p[i]) THEN EntNaN ELSE PLogP(p)

_calculate_entropy_ndarray(x) == PLogPStrict(Shares(x, NpSum(x)))

\* _calculate_entropy(x) of a pandas Series: x /= x.sum() (the sum skips NaN),
\* then -np.sum(x * np.log(x)), which is Series.sum() and skips the NaN terms
\* that the entries 0 (0 * -inf) and NaN give; an entry 1 gives the term 0.
_calculate_entropy(x) == PLogP(Shares(x, PdSum(x)))

\* weight * entropy of one group
EScale(w, e) ==
    IF IsNaN(w) \/ e.nan THEN EntNaN
    ELSE IF w = Zero THEN EntZero
    ELSE [nan |-> FALSE, terms |-> {<<t[1], RMul(w, t[2])>> : t \in e.terms}]

\* The coefficient of ln(v) in an entropy value.
Coef(e, v) ==
    IF \E t \in e.terms : t[1] = v
    THEN (CHOOSE t \in e.terms : t[1] = v)[2]
    ELSE Zero

SumTerms(good) ==
    [nan |-> FALSE,
     terms |-> {<<v, NpSum(AsSeq([i \in 1..Len(good) |-> Coef(good[i], v)]))>> :
                    v \in UNION {{t[1] : t \in good[i].terms} : i \in 1..Len(good)}}]

\* np.nansum over a sequence of entropy values: NaN entries count as 0.
NanSum(es) == SumTerms(SelectSeq(es, LAMBDA e : ~e.nan))

\* flow_df.groupby(group_var)[flow_var].sum() of one table
Sizes(flow_df, group_var, flow_var) ==
    AsSeq([i \in 1..Len(Labels(flow_df, group_var)) |->
        PdSum(Chunk(flow_df, group_var, Labels(flow_df, group_var)[i], flow_var))])

\* weights * entropy, group by group
Weighted(weights, flow_df, group_var, flow_var) ==
    AsSeq([i \in 1..Len(weights) |->
        EScale(weights[i],
               _calculate_entropy(
                   Chunk(flow_df, group_var, Labels(flow_df, group_var)[i], flow_var)))])

NormalizedWeights(sums) == Shares(sums, PdSum(sums))

\* _expected_flow_entropy(flow_df, group_var, flow_var)
_expected_flow_entropy(flow_df, group_var, flow_var) ==
    NanSum(Weighted(NormalizedWeights(Sizes(flow_df, group_var, flow_var)),
                    flow_df, group_var, flow_var))

\* The rows with source == target of one table, summed per flow column.
SelfFlow(flow_df, flow_var) ==
    PdSum(Column(SelectSeq(flow_df, LAMBDA r : r.source = r.target), flow_var))

ConsistencyRows(cache, keys) ==
    {[key |-> k, direction |-> "forward",
      consistency |-> SelfFlow(cache[k], "outflow")] : k \in keys}
    \cup
    {[key |-> k, direction |-> "backward",
      consistency |-> SelfFlow(cache[k], "inflow")] : k \in keys}

\* Sankey.compute_flow_consistency(): pd.concat fails on None (caching off)
\* and on an empty cache; the concatenation is a new table.  groupby gives a
\* row per key that has a self-flow row.
compute_flow_consistency(caching, cache) ==
    IF ~caching
    THEN [flow_dfs |-> cache, outcome |-> "AttributeError", metric |-> {}]
    ELSE IF DOMAIN cache = {}
    THEN [flow_dfs |-> cache, outcome |-> "ValueError", metric |-> {}]
    ELSE [flow_dfs |-> cache, outcome |-> "ok",
          metric |-> ConsistencyRows(cache,
              {c \in DOMAIN cache : \E i \in 1..Len(cache[c]) :
                   cache[c][i].source = cache[c][i].target})]

\* The table whose outflow and inflow columns were normalised per group in
\* place, as x /= x.sum() would leave them if it wrote through to the table.
NormalizedInPlace(flow_df) ==
    AsSeq([i \in 1..Len(flow_df) |->
        [source |-> flow_df[i].source, target |-> flow_df[i].target,
         outflow |-> RDiv(flow_df[i].outflow,
                          PdSum(Chunk(flow_df, "source", flow_df[i].source, "outflow"))),
         inflow |-> RDiv(flow_df[i].inflow,
                         PdSum(Chunk(flow_df, "target", flow_df[i].target, "inflow")))]])

\* The entropy table: expected_entropy under 'forward' is the one of
\* (source, outflow) and under 'backward' the one of (target, inflow);
\* prior_entropy is pd.concat([tgt_entropy, src_entropy], keys=['forward',
\* 'backward']).
EntropyRows(cache) ==
    {[key |-> k, direction |-> "forward",
      expected |-> _expected_flow_entropy(cache[k], "source", "outflow"),
      prior |-> _calculate_entropy(Sizes(cache[k], "target", "inflow"))] :
         k \in DOMAIN cache}
    \cup
    {[key |-> k, direction |-> "backward",
      expected |-> _expected_flow_entropy(cache[k], "target", "inflow"),
      prior |-> _calculate_entropy(Sizes(cache[k], "source", "outflow"))] :
         k \in DOMAIN cache}

compute_flow_entropy_inplace(caching, cache) ==
    IF ~caching
    THEN [flow_dfs |-> cache, outcome |-> "AttributeError", metric |-> {}]
    ELSE IF DOMAIN cache = {}
    THEN [flow_dfs |-> cache, outcome |-> "ValueError", metric |-> {}]
    ELSE [flow_dfs |-> [k \in DOMAIN cache |-> NormalizedInPlace(cache[k])],
          outcome |-> "ok", metric |-> EntropyRows(cache)]

\* Sankey.compute_flow_entropy(): works on the concatenation (a new table), so
\* the in-place division of _calculate_entropy never reaches the cache.
compute_flow_entropy(caching, cache) ==
    IF ~caching
    THEN [flow_dfs |-> cache, outcome |-> "AttributeError", metric |-> {}]
    ELSE IF DOMAIN cache = {}
    THEN [flow_dfs |-> cache, outcome |-> "ValueError", metric |-> {}]
    ELSE [flow_dfs |-> cache, outcome |-> "ok", metric |-> EntropyRows(cache)]

\* ------------------------------------------------------------ the instance
EmptyCache == [k \in {} |-> <<>>]

NoResult ==
    [outcome |-> "ok", ret |-> <<>>, used |-> <<>>, rendered |-> <<>>,
     metric |-> {}, pushes |-> <<>>]

\* The record of a call: its name and arguments, and of its result r all but
\* the cache.
Call(op, key, r) ==
    [op |-> op, key |-> key]
    @@ [f \in DOMAIN r \ {"flow_dfs"} |-> r[f]]
    @@ NoResult

\* Sankey.__init__
Init ==
    /\ subsets \in SubsetChoices
    /\ cache_flow_dfs \in BOOLEAN
    /\ flow_dfs = EmptyCache
    /\ last = Call("__init__", <<>>, NoResult)
    /\ first = EmptyCache
    /\ ops = 0

\* A call with result r: the cache it leaves and its record.  first keeps the
\* table of the first calculate_flows call that returned one for the key, and
\* the number of that call.
Done(op, key, r) ==
    /\ flow_dfs' = r.flow_dfs
    /\ last' = Call(op, key, r)
    /\ first' = IF op = "calculate_flows" /\ r.outcome = "ok" /\ key \notin DOMAIN first
                THEN [k \in DOMAIN first \cup {key} |->
                         IF k = key THEN [ret |-> r.ret, at |-> ops + 1]
                         ELSE first[k]]
                ELSE first
    /\ ops' = ops + 1
    /\ UNCHANGED <<subsets, cache_flow_dfs>>

CalculateFlows(t0, t1) ==
    /\ ops < MaxOps
    /\ Done("calculate_flows", <<t0, t1>>,
            calculate_flows(subsets, cache_flow_dfs, flow_dfs, t0, t1))

PlotSankey(t0, t1) ==
    /\ ops < MaxOps
    /\ Done("plot_sankey", <<t0, t1>>,
            plot_sankey(subsets, cache_flow_dfs, flow_dfs, t0, t1))

PlotAllTransitions(timepoints) ==
    /\ ops < MaxOps
    /\ Done("plot_all_transitions", timepoints,
            plot_all_transitions(subsets, cache_flow_dfs, flow_dfs, timepoints))

ComputeFlowConsistency ==
    /\ ops < MaxOps
    /\ Done("compute_flow_consistency", <<>>,
            compute_flow_consistency(cache_flow_dfs, flow_dfs))

ComputeFlowEntropy ==
    /\ ops < MaxOps
    /\ Done("compute_flow_entropy", <<>>,
            compute_flow_entropy(cache_flow_dfs, flow_dfs))

Next ==
    \/ \E t0, t1 \in TimeInputs : CalculateFlows(t0, t1)
    \/ \E t0, t1 \in TimeInputs : PlotSankey(t0, t1)
    \/ \E tp \in TimepointArgs : PlotAllTransitions(tp)
    \/ ComputeFlowConsistency
    \/ ComputeFlowEntropy

Spec == Init /\ [][Next]_vars

\* =================================================================== claims
IsTimepoint(t) == \E i \in 1..Len(Timepoints) : Timepoints[i] = t

\* The total membership mass of the observations of time point t.
\* (Summed over the raw weights of self.subsets.)
Mass(sub, t) ==
    NpSum(Flatten(AsSeq([i \in 1..Len(ObsAt(t)) |->
        AsSeq([g \in 1..NGroups |-> FromInt(sub[ObsAt(t)[i]][g])])])))

ValidRange(key) == IsTimepoint(key[1]) /\ IsTimepoint(key[2]) /\ key[1] <= key[2]

Degenerate(sub, key) ==
    ValidRange(key) /\ (Mass(sub, key[1]) = Zero \/ Mass(sub, key[2]) = Zero)

\* The step is a call of the named method.
Called(op) == ops' = ops + 1 /\ last'.op = op

\* The call raised.  The module defines no error classes of its own, so any
\* exception is taken for the error a claim names.
Raised(call) == call.outcome # "ok"

\* C1: calculate_flows(t0, t1) on a time point without membership mass ends
\* in an error (DegenerateInputError) instead of returning a table, and leaves
\* the cache as it was.
C1_DegenerateRaises ==
    [][(Called("calculate_flows") /\ Degenerate(subsets, last'.key))
         => (Raised(last') /\ last'.ret = <<>> /\ flow_dfs' = flow_dfs)]_vars

\* C2: calculate_flows(t0, t1) with t0 > t1, or with t0 or t1 no time point of
\* the model, fails with an error (InvalidRangeError): no table, no
\* push_forward, nothing stored.
C2_InvalidRangeRaises ==
    [][(Called("calculate_flows") /\ ~ValidRange(last'.key))
         => (/\ Raised(last')
             /\ last'.ret = <<>>
             /\ last'.pushes = <<>>
             /\ flow_dfs' = flow_dfs)]_vars

\* The day pairs of the model inside [t0, t1], in time order.
AdjacentPairs(key) ==
    SelectSeq(day_pairs, LAMBDA p : key[1] <= p[1] /\ p[2] <= key[2])

\* The day pairs push_forward was invoked on with the given norm_axis.
PushedPairs(pushes, norm_axis) ==
    AsSeq([i \in 1..Len(SelectSeq(pushes, LAMBDA c : c[3] = norm_axis)) |->
        <<SelectSeq(pushes, LAMBDA c : c[3] = norm_axis)[i][1],
          SelectSeq(pushes, LAMBDA c : c[3] = norm_axis)[i][2]>>])

\* C3: for time points t0 <= t1, calculate_flows(t0, t1) invokes push_forward
\* on exactly the day pairs inside [t0, t1], in ascending order, once each with
\* norm_axis=1 (outflow) and once each with norm_axis=0 (inflow), and on
\* nothing else; none when t0 = t1.
C3_HopPath ==
    (last.op = "calculate_flows" /\ ValidRange(last.key)) =>
        /\ Len(last.pushes) = 2 * Len(AdjacentPairs(last.key))
        /\ PushedPairs(last.pushes, 1) = AdjacentPairs(last.key)
        /\ PushedPairs(last.pushes, 0) = AdjacentPairs(last.key)
        /\ (last.key[1] = last.key[2] => last.pushes = <<>>)

C3_Witness ==
    /\ last.op = "calculate_flows"
    /\ last.key = <<1, 3>>
    /\ last.outcome = "ok"
    /\ Len(last.pushes) = 4

\* The table has exactly one row per (source group, target group) pair.
FullCross(flow_df) ==
    /\ Len(flow_df) = NGroups * NGroups
    /\ \A s \in Range(Groups), t \in Range(Groups) :
          Cardinality({i \in 1..Len(flow_df) :
              flow_df[i].source = s /\ flow_df[i].target = t}) = 1

\* C4: every cached table and every table calculate_flows returns holds the
\* full group x group cross product, rows with a zero flow included, whatever
\* was rendered or computed before.
C4_FullCrossProduct ==
    /\ \A k \in DOMAIN flow_dfs : FullCross(flow_dfs[k])
    /\ (last.op = "calculate_flows" /\ last.outcome = "ok") => FullCross(last.ret)

C4_Witness ==
    /\ last.op = "plot_sankey"
    /\ last.key \in DOMAIN flow_dfs
    /\ Len(last.rendered) < Len(flow_dfs[last.key])
    /\ \E i \in 1..Len(flow_dfs[last.key]) : flow_dfs[last.key][i].outflow = Zero

Metrics == {"compute_flow_consistency", "compute_flow_entropy"}

\* C5 as stated: the cache starts empty, its key set never shrinks, a key
\* enters only by a calculate_flows call for that pair, and no rendering or
\* metric call adds or removes a key.
C5_OnlyComputeFlowAdds ==
    [][/\ (ops = 0 => DOMAIN flow_dfs = {})
       /\ DOMAIN flow_dfs \subseteq DOMAIN flow_dfs'
       /\ (Called("calculate_flows")
             => DOMAIN flow_dfs' \ DOMAIN flow_dfs \subseteq {last'.key})
       /\ (~Called("calculate_flows") => DOMAIN flow_dfs' = DOMAIN flow_dfs)]_vars

\* C5 amended: the cache starts empty, its key set never shrinks, and a key
\* enters only by a calculate_flows call for that pair that returned: made
\* directly, or made by plot_sankey for its own pair, or by
\* plot_all_transitions for a day pair, when the pair was not cached; the
\* metrics never change the key set.
C5_AppendOnly ==
    [][/\ (ops = 0 => DOMAIN flow_dfs = {})
       /\ DOMAIN flow_dfs \subseteq DOMAIN flow_dfs'
       /\ (Called("calculate_flows") \/ Called("plot_sankey")
             => /\ DOMAIN flow_dfs' \ DOMAIN flow_dfs \subseteq {last'.key}
                /\ (DOMAIN flow_dfs' # DOMAIN flow_dfs => last'.outcome = "ok"))
       /\ (Called("plot_all_transitions")
             => DOMAIN flow_dfs' \ DOMAIN flow_dfs \subseteq Range(day_pairs))
       /\ (last'.op \in Metrics => DOMAIN flow_dfs' = DOMAIN flow_dfs)]_vars

C5_Witness ==
    /\ cache_flow_dfs
    /\ last.op = "plot_sankey"
    /\ last.key \in DOMAIN flow_dfs
    /\ last.pushes # <<>>
    /\ Cardinality(DOMAIN flow_dfs) >= 2

C7_PriorMatchesDirection ==
    (last.op = "compute_flow_entropy" /\ last.outcome = "ok") =>
        \A e \in last.metric :
            /\ e.direction = "forward" =>
                  e.prior = _calculate_entropy(Sizes(flow_dfs[e.key], "source", "outflow"))
            /\ e.direction = "backward" =>
                  e.prior = _calculate_entropy(Sizes(flow_dfs[e.key], "target", "inflow"))

\* The table a rendering or calculate_flows call worked with.
TableOf(call) == IF call.op = "plot_sankey" THEN call.used ELSE call.ret

\* C8 as stated: with caching on, a request for a cached pair, made by
\* calculate_flows or by plot_sankey, gives the cached table and invokes
\* push_forward not once.
C8_CachedNeverRecomputed ==
    [][(/\ cache_flow_dfs
        /\ Called("calculate_flows") \/ Called("plot_sankey")
        /\ last'.key \in DOMAIN flow_dfs)
         => (/\ last'.pushes = <<>>
             /\ TableOf(last') = flow_dfs[last'.key])]_vars

\* C8 amended: with caching on, plot_sankey of a cached pair uses the cached
\* table, invokes push_forward not once and leaves the cache as it was, and
\* plot_all_transitions invokes push_forward only for day pairs that were not
\* cached; a direct calculate_flows call of a cached pair does not read the
\* cache: it invokes push_forward again on every day pair of its range.
C8_RenderUsesCache ==
    [][/\ (cache_flow_dfs /\ Called("plot_sankey") /\ last'.key \in DOMAIN flow_dfs)
          => (/\ last'.pushes = <<>>
              /\ last'.outcome = "ok"
              /\ last'.used = flow_dfs[last'.key]
              /\ flow_dfs' = flow_dfs)
       /\ (cache_flow_dfs /\ Called("plot_all_transitions"))
          => \A i \in 1..Len(last'.pushes) :
                <<last'.pushes[i][1], last'.pushes[i][2]>> \notin DOMAIN flow_dfs
       /\ (Called("calculate_flows") /\ ValidRange(last'.key)
             /\ last'.key \in DOMAIN flow_dfs)
          => Len(last'.pushes) = 2 * Len(AdjacentPairs(last'.key))]_vars

C8_Witness ==
    /\ cache_flow_dfs
    /\ last.op = "plot_sankey"
    /\ last.outcome = "ok"
    /\ last.key = <<1, 3>>
    /\ last.pushes = <<>>
    /\ last.used = flow_dfs[<<1, 3>>]

\* The entries of a vector that are not zero.
NonZero(x) == SelectSeq(x, LAMBDA v : v # Zero)

\* The entropy of a vector of positive masses: the terms -p * ln(p) of its
\* shares p, the shares 1 left out.
EntropyOfPositive(x) ==
    [nan |-> FALSE,
     terms |-> {<<v, RMul(v, FromInt(Count(v, Shares(x, NpSum(x)))))>> :
                    v \in Range(Shares(x, NpSum(x))) \ {One}}]

\* The mass vectors _calculate_entropy is applied to for one table: the flows
\* of each conditioning group and the two marginals.
EntropyInputs(flow_df) ==
    {Chunk(flow_df, "source", g, "outflow") : g \in Range(Groups)}
    \cup {Chunk(flow_df, "target", g, "inflow") : g \in Range(Groups)}
    \cup {Sizes(flow_df, "source", "outflow"), Sizes(flow_df, "target", "inflow")}

PositiveTotal(x) == ~IsNaN(NpSum(x)) /\ NpSum(x) # Zero

\* The expected entropy by its definition: the sum over the conditioning
\* groups with mass of their share times the entropy of their nonzero flows.
ExpectedByDefinition(flow_df, group_var, flow_var) ==
    SumTerms(AsSeq([i \in 1..Len(SelectSeq(Groups, LAMBDA g :
                        PositiveTotal(Chunk(flow_df, group_var, g, flow_var)))) |->
        EScale(
            RDiv(NpSum(Chunk(flow_df, group_var,
                     SelectSeq(Groups, LAMBDA g :
                         PositiveTotal(Chunk(flow_df, group_var, g, flow_var)))[i],
                     flow_var)),
                 NpSum(Column(flow_df, flow_var))),
            EntropyOfPositive(NonZero(Chunk(flow_df, group_var,
                     SelectSeq(Groups, LAMBDA g :
                         PositiveTotal(Chunk(flow_df, group_var, g, flow_var)))[i],
                     flow_var))))]))

\* C9: on every mass vector with a positive total that the entropy table is
\* computed from, zero entries included, _calculate_entropy gives a number,
\* not NaN, that is not negative and equals the entropy of the nonzero
\* entries (0 for a vector with one nonzero entry); the expected entropy is
\* the sum, over the conditioning groups with mass, of share times entropy.
C9_ZeroLogZero ==
    (last.op = "compute_flow_entropy" /\ last.outcome = "ok") =>
        /\ \A k \in DOMAIN flow_dfs : \A x \in EntropyInputs(flow_dfs[k]) :
              PositiveTotal(x) =>
                  /\ ~_calculate_entropy(x).nan
                  /\ _calculate_entropy(x) = EntropyOfPositive(NonZero(x))
                  /\ \A t \in _calculate_entropy(x).terms :
                        /\ t[1][1] > 0 /\ t[1][1] < t[1][2]
                        /\ t[2][1] > 0
                  /\ (Len(NonZero(x)) = 1 => _calculate_entropy(x) = EntZero)
        /\ \A e \in last.metric :
              /\ ~e.prior.nan
              /\ ~e.expected.nan
              /\ PositiveTotal(Column(flow_dfs[e.key], "outflow")) =>
                    e.expected =
                        IF e.direction = "forward"
                        THEN ExpectedByDefinition(flow_dfs[e.key], "source", "outflow")
                        ELSE ExpectedByDefinition(flow_dfs[e.key], "target", "inflow")

C9_Witness ==
    /\ last.op = "compute_flow_entropy"
    /\ last.outcome = "ok"
    /\ \E k \in DOMAIN flow_dfs :
          /\ \E x \in EntropyInputs(flow_dfs[k]) :
                PositiveTotal(x) /\ Len(NonZero(x)) = 1 /\ Len(x) = 2
          /\ \E e \in last.metric : e.key = k /\ e.expected.terms # {}

\* C10: a metric call leaves the cache and the other fields of the instance
\* as they were, invokes push_forward not once, and its table has one entry
\* per cached key and direction, for exactly the keys cached at the call.
C10_MetricsReadOnly ==
    [][(ops' = ops + 1 /\ last'.op \in Metrics)
         => (/\ flow_dfs' = flow_dfs
             /\ subsets' = subsets
             /\ cache_flow_dfs' = cache_flow_dfs
             /\ last'.pushes = <<>>
             /\ (Raised(last') => last'.metric = {})
             /\ (~Raised(last') =>
                   /\ {<<e.key, e.direction>> : e \in last'.metric}
                         = (DOMAIN flow_dfs) \X {"forward", "backward"}
                   /\ Cardinality(last'.metric) = 2 * Cardinality(DOMAIN flow_dfs)))]_vars

C10_Witness ==
    /\ last.op \in Metrics
    /\ last.outcome = "ok"
    /\ Cardinality(DOMAIN flow_dfs) >= 2
    /\ Cardinality(last.metric) = 2 * Cardinality(DOMAIN flow_dfs)
    /\ \E k \in DOMAIN flow_dfs : \E i \in 1..Len(flow_dfs[k]) :
          flow_dfs[k][i].outflow \notin {Zero, NaN}

====
